---- MODULE Spec2Model ----
(***************************************************************************)
(* Model of src/src/connection.rs (minreq): one send operation of a        *)
(* Connection, from Connection::new through connect, the optional proxy    *)
(* tunnel, timeout calibration, the request write, the response reads of   *)
(* HttpStream and the redirect decision of handle_redirects/get_redirect.  *)
(* Time is a discrete clock of seconds that advances inside the blocking   *)
(* calls (connect, write, read).                                           *)
(***************************************************************************)
EXTENDS Integers, Sequences, FiniteSets, TLC

\* ---------------------------------------------------------------- bounds
MaxTime == 3        \* the clock runs from 0 to MaxTime
MaxStep == 2        \* longest time one blocking call takes
MaxHops == 2        \* redirect hops followed by the model
MaxEnvLen == 2      \* longest MINREQ_TIMEOUT string enumerated
MaxReads == 1       \* HttpStream reads per response head
MaxTimeout == 2     \* largest timeout a Request carries
ReqLen == 2         \* length of the serialized request, request.as_bytes()
ShortRead == 100    \* size of a read that returns less than is pending

\* ------------------------------------------------------ program constants
ChunkSize == 256    \* vec![0; 256] of the proxy read loop

\* ------------------------------------------------------------ value sets
Methods == {"Get", "Head", "Post", "Put", "Delete"}
Statuses == {200, 300, 301, 302, 303, 304, 307, 308, 404, 500}
Urls == {"/b"}
EnvChars == {"0", "2", "+", "x"}

\* Option<T>: one record shape for numbers, one for strings
None == [some |-> FALSE, v |-> 0]
Some(x) == [some |-> TRUE, v |-> x]
NoUrl == [some |-> FALSE, v |-> ""]
SomeUrl(u) == [some |-> TRUE, v |-> u]

\* Result<ResponseLazy, Error> of a send, "Running" while it has not returned
Running == [tag |-> "Running", err |-> "", status |-> 0, location |-> NoUrl]
Ok(resp) == [tag |-> "Ok", err |-> "", status |-> resp.status, location |-> resp.location]
Err(e) == [tag |-> "Err", err |-> e, status |-> 0, location |-> NoUrl]
Panic == [tag |-> "Panic", err |-> "unwrap", status |-> 0, location |-> NoUrl]
NoResponse == [status |-> 0, location |-> NoUrl]

\* ------------------------------------------------------------------ state
VARIABLES
    pc,               \* position of the send operation
    request,          \* the Request owned by the Connection
    env,              \* the MINREQ_TIMEOUT environment variable
    punycode,         \* whether the "punycode" feature is compiled in
    tls,              \* the TLS backend compiled in: "none", "rustls" or "native-tls"
    timeout,          \* Connection.timeout: Option<u64>
    timeout_duration, \* send's local Option<Duration>
    timeout_at,       \* send's local Option<Instant>
    now,              \* Instant::now()
    first_deadline,   \* timeout_at of the original (hop 0) send
    hops,             \* follow-up sends issued for redirects
    connects,         \* TcpStream::connect / connect_timeout calls of this hop
    connect_arg,      \* the bound passed to the last connect call
    open_sockets,     \* TcpStreams alive
    write_timeout,    \* SO_SNDTIMEO of the hop's socket
    read_timeout,     \* SO_RCVTIMEO of the hop's socket
    written,          \* request bytes written to the hop's socket
    sock_reads,       \* reads performed on the hop's socket by HttpStream
    proxy_pending,    \* bytes of the proxy's reply not yet received
    proxy_response,   \* Vec::len of proxy_response
    proxy_received,   \* sum of the byte counts returned by the proxy reads
    proxy_status,     \* status code of the proxy's reply to CONNECT, 0 without a reply
    first_method,     \* method of the request the caller sent
    response,         \* the ResponseLazy handed to handle_redirects
    responses,        \* responses parsed by ResponseLazy::from_stream
    result            \* what the send operation returned

vars == <<pc, request, env, punycode, tls, timeout, timeout_duration, timeout_at, now,
          first_deadline, hops, connects, connect_arg, open_sockets, write_timeout,
          read_timeout, written, sock_reads, proxy_pending, proxy_response,
          proxy_received, proxy_status, first_method, response, responses, result>>

\* variables of the hop's socket
sockvars == <<connects, connect_arg, open_sockets, write_timeout, read_timeout,
              written, sock_reads>>
proxyvars == <<proxy_pending, proxy_response, proxy_received, proxy_status>>
timevars == <<timeout, timeout_duration, timeout_at, first_deadline>>

\* --------------------------------------------------------- pure functions

\* char::to_digit(10) of str::parse::<u64>
DigitValue ==
    ("0" :> 0) @@ ("1" :> 1) @@ ("2" :> 2) @@ ("3" :> 3) @@ ("4" :> 4) @@
    ("5" :> 5) @@ ("6" :> 6) @@ ("7" :> 7) @@ ("8" :> 8) @@ ("9" :> 9)

\* the accumulation loop of parse: result = result * 10 + digit, left to right
\* (no string within MaxEnvLen reaches u64::MAX, so the overflow error is out of reach)
RECURSIVE parse_digits(_, _)
parse_digits(digits, acc) ==
    IF digits = <<>> THEN acc
    ELSE parse_digits(Tail(digits), acc * 10 + DigitValue[Head(digits)])

\* t.parse::<u64>().ok(): empty -> None, a lone sign -> None, one leading "+"
\* is skipped, "-" and every other non-digit -> None
parse_u64(s) ==
    IF s = <<>> THEN None
    ELSE LET digits == IF Head(s) = "+" THEN Tail(s) ELSE s
         IN  IF digits = <<>> THEN None
             ELSE IF \E i \in 1..Len(digits) : digits[i] \notin DOMAIN DigitValue THEN None
             ELSE Some(parse_digits(digits, 0))

\* Connection::new that lets the environment variable override the request
new_env_first(req, e) ==
    IF e.kind = "Present" /\ parse_u64(e.val).some THEN parse_u64(e.val)
    ELSE req.timeout

\* Connection::new that falls back to 0 seconds when the variable does not parse
new_unwrap_or_default(req, e) ==
    IF req.timeout.some THEN req.timeout
    ELSE IF e.kind = "Present"
         THEN (IF parse_u64(e.val).some THEN parse_u64(e.val) ELSE Some(0))
    ELSE None

\* Connection::new: the resolved timeout
new(req, e) ==
    IF req.timeout.some THEN req.timeout
    ELSE IF e.kind = "Present" THEN parse_u64(e.val)
    ELSE None

\* Labels of host names. An upper-case letter stands for a non-ASCII character.
AsciiLabels == {"example", "com:80", "de:80", "xn--bcher-kva"}
\* punycode::encode: the encodable labels and their encodings
PunycodeTable == ("bUcher" :> "xn--bcher-kva")

RECURSIVE encode_labels(_)
encode_labels(host) ==
    IF host = <<>> THEN [ok |-> TRUE, host |-> <<>>]
    ELSE LET s == Head(host)
             rest == encode_labels(Tail(host))
         IN  IF s \in AsciiLabels
             THEN [ok |-> rest.ok, host |-> IF rest.ok THEN <<s>> \o rest.host ELSE <<>>]
             ELSE IF s \in DOMAIN PunycodeTable
             THEN [ok |-> rest.ok,
                   host |-> IF rest.ok THEN <<PunycodeTable[s]>> \o rest.host ELSE <<>>]
             ELSE [ok |-> FALSE, host |-> <<>>]

\* ensure_ascii_host that hands a non-ASCII host on when the feature is off
ensure_ascii_host_passthrough(host, feature) ==
    IF (\A i \in 1..Len(host) : host[i] \in AsciiLabels) \/ ~feature
    THEN [ok |-> TRUE, host |-> host, err |-> ""]
    ELSE LET r == encode_labels(host)
         IN  IF r.ok THEN [ok |-> TRUE, host |-> r.host, err |-> ""]
             ELSE [ok |-> FALSE, host |-> host, err |-> "PunycodeConversionFailed"]

\* ensure_ascii_host: the host as a sequence of dot-separated labels
ensure_ascii_host(host, feature) ==
    IF \A i \in 1..Len(host) : host[i] \in AsciiLabels
    THEN [ok |-> TRUE, host |-> host, err |-> ""]
    ELSE IF ~feature
    THEN [ok |-> FALSE, host |-> host, err |-> "PunycodeFeatureNotEnabled"]
    ELSE LET r == encode_labels(host)
         IN  IF r.ok THEN [ok |-> TRUE, host |-> r.host, err |-> ""]
             ELSE [ok |-> FALSE, host |-> host, err |-> "PunycodeConversionFailed"]

\* calibrate_timeout: checked_duration_since is Some exactly when timeout_at >= now
calibrate_timeout(t, t_at, clock) ==
    IF t.some /\ t_at.some
    THEN IF t_at.v >= clock
         THEN [ok |-> TRUE, timeout |-> Some(t_at.v - clock)]
         ELSE [ok |-> FALSE, timeout |-> t]
    ELSE [ok |-> TRUE, timeout |-> t]

\* the closure with timeout_at < now in place of timeout_at <= now
stream_timeout_strict(t_at, clock, rt) ==
    IF t_at.some
    THEN IF t_at.v < clock
         THEN [ok |-> FALSE, read_timeout |-> rt]
         ELSE [ok |-> TRUE, read_timeout |-> Some(t_at.v - clock)]
    ELSE [ok |-> TRUE, read_timeout |-> rt]

\* the `timeout` closure of HttpStream::read: the error, or the socket's
\* read timeout after the call
stream_timeout(t_at, clock, rt) ==
    IF t_at.some
    THEN IF t_at.v <= clock
         THEN [ok |-> FALSE, read_timeout |-> rt]
         ELSE [ok |-> TRUE, read_timeout |-> Some(t_at.v - clock)]
    ELSE [ok |-> TRUE, read_timeout |-> rt]

\* Request::redirect_to: the same request aimed at the new url, or an error
\* when the request refuses the redirect (accepted = FALSE)
redirect_to(req, url, accepted) ==
    IF accepted
    THEN [ok |-> TRUE, request |-> [req EXCEPT !.url = url], err |-> ""]
    ELSE [ok |-> FALSE, request |-> req, err |-> "RedirectRefused"]

RedirectStatuses == {301, 302, 303, 307}

\* get_redirect with Delete left out of the methods that 303 downgrades
get_redirect_no_delete(req, status_code, url, accepted) ==
    IF status_code \in RedirectStatuses
    THEN IF ~url.some
         THEN [kind |-> "SomeErr", err |-> "RedirectLocationMissing", request |-> req]
         ELSE LET r == redirect_to(req, url.v, accepted)
              IN  IF r.ok
                  THEN [kind |-> "SomeOk", err |-> "",
                        request |-> IF status_code = 303
                                       /\ r.request.method \in {"Post", "Put"}
                                    THEN [r.request EXCEPT !.method = "Get"]
                                    ELSE r.request]
                  ELSE [kind |-> "SomeErr", err |-> r.err, request |-> req]
    ELSE [kind |-> "None", err |-> "", request |-> req]

\* get_redirect that treats a redirect without Location as no redirect
get_redirect_missing_is_none(req, status_code, url, accepted) ==
    IF status_code \in RedirectStatuses /\ url.some
    THEN LET r == redirect_to(req, url.v, accepted)
         IN  IF r.ok
             THEN [kind |-> "SomeOk", err |-> "",
                   request |-> IF status_code = 303
                                  /\ r.request.method \in {"Post", "Put", "Delete"}
                               THEN [r.request EXCEPT !.method = "Get"]
                               ELSE r.request]
             ELSE [kind |-> "SomeErr", err |-> r.err, request |-> req]
    ELSE [kind |-> "None", err |-> "", request |-> req]

\* get_redirect that also follows 308 Permanent Redirect
get_redirect_with_308(req, status_code, url, accepted) ==
    IF status_code \in RedirectStatuses \cup {308}
    THEN IF ~url.some
         THEN [kind |-> "SomeErr", err |-> "RedirectLocationMissing", request |-> req]
         ELSE LET r == redirect_to(req, url.v, accepted)
              IN  IF r.ok
                  THEN [kind |-> "SomeOk", err |-> "",
                        request |-> IF status_code = 303
                                       /\ r.request.method \in {"Post", "Put", "Delete"}
                                    THEN [r.request EXCEPT !.method = "Get"]
                                    ELSE r.request]
                  ELSE [kind |-> "SomeErr", err |-> r.err, request |-> req]
    ELSE [kind |-> "None", err |-> "", request |-> req]

\* get_redirect: None, Some(Err(e)) or Some(Ok(request))
get_redirect(req, status_code, url, accepted) ==
    IF status_code \in RedirectStatuses
    THEN IF ~url.some
         THEN [kind |-> "SomeErr", err |-> "RedirectLocationMissing", request |-> req]
         ELSE LET r == redirect_to(req, url.v, accepted)
              IN  IF r.ok
                  THEN [kind |-> "SomeOk", err |-> "",
                        request |-> IF status_code = 303
                                       /\ r.request.method \in {"Post", "Put", "Delete"}
                                    THEN [r.request EXCEPT !.method = "Get"]
                                    ELSE r.request]
                  ELSE [kind |-> "SomeErr", err |-> r.err, request |-> req]
    ELSE [kind |-> "None", err |-> "", request |-> req]

\* ------------------------------------------------------------------- init
Hosts == {<<"example", "com:80">>, <<"bUcher", "de:80">>}
ReqTimeouts == {None} \cup {Some(t) : t \in 0..MaxTimeout}
Requests == [method : Methods, timeout : ReqTimeouts, proxy : BOOLEAN,
             host : Hosts, url : {"/a"}, https : BOOLEAN]
\* TLS backends; the "openssl" feature shares the code of "native-tls"
TlsBackends == {"rustls", "native-tls"}
\* env::var("MINREQ_TIMEOUT"): Err(NotPresent), Err(NotUnicode) or Ok(string)
EnvVar(kind, val) == [kind |-> kind, val |-> val]
EnvSmall == {EnvVar("NotPresent", <<>>), EnvVar("Present", <<"x">>),
             EnvVar("Present", <<"+", "2">>)}
\* lengths of the reply the proxy sends to CONNECT
ProxyReplyLens == {0, 39, ChunkSize, ChunkSize + 44}
\* status codes of the proxy's reply
ProxyStatuses == {200, 407}

InitRest ==
    /\ pc = "send_lazy"
    /\ punycode \in BOOLEAN
    /\ tls \in IF request.https THEN TlsBackends ELSE {"none"}
    /\ timeout = None
    /\ timeout_duration = None
    /\ timeout_at = None
    /\ now = 0
    /\ first_deadline = None
    /\ hops = 0
    /\ connects = 0
    /\ connect_arg = None
    /\ open_sockets = 0
    /\ write_timeout = None
    /\ read_timeout = None
    /\ written = 0
    /\ sock_reads = 0
    /\ proxy_pending = 0
    /\ proxy_response = 0
    /\ proxy_received = 0
    /\ proxy_status = 0
    /\ first_method = request.method
    /\ response = NoResponse
    /\ responses = 0
    /\ result = Running

\* The environment variable is consulted only without an explicit timeout, and
\* the punycode feature only for a non-ASCII host; the TLS sends are run for
\* two methods: the other combinations behave as the ones enumerated here.
Init ==
    /\ request \in Requests
    /\ env \in EnvSmall
    /\ request.timeout.some => env.kind = "NotPresent"
    /\ InitRest
    /\ punycode => request.host = <<"bUcher", "de:80">>
    /\ request.https => (request.method \in {"Get", "Post"} /\ ~punycode)

\* ---------------------------------------------------------------- actions

\* the send returns: Ok keeps the last response's stream alive, everything
\* else is dropped while the frames of send/handle_redirects return
Return(r) ==
    /\ result' = r
    /\ pc' = "done"
    /\ open_sockets' = IF r.tag = "Ok" THEN 1 ELSE 0

\* a blocking call takes dt seconds
Elapse(dt) ==
    /\ now + dt <= MaxTime
    /\ now' = now + dt

\* Request::send_lazy: Connection::new(request).send(), or .send_https() for
\* an https request
send_lazy ==
    /\ pc = "send_lazy"
    /\ timeout' = new(request, env)
    /\ pc' = IF request.https THEN "send_https" ELSE "send"
    /\ UNCHANGED <<request, env, punycode, tls, first_method, timeout_duration, timeout_at, now,
                   first_deadline, hops, sockvars, proxyvars, response, responses, result>>

\* Connection::send up to the connect call
send ==
    /\ pc = "send"
    /\ LET h == ensure_ascii_host(request.host, punycode)
       IN  IF ~h.ok
           THEN /\ Return(Err(h.err))
                /\ UNCHANGED <<request, timeout_duration, timeout_at, first_deadline,
                               connects, connect_arg, write_timeout, read_timeout,
                               written, sock_reads, proxyvars>>
           ELSE /\ request' = [request EXCEPT !.host = h.host]
                /\ timeout_duration' = timeout
                /\ timeout_at' = IF timeout.some THEN Some(now + timeout.v) ELSE None
                /\ first_deadline' = IF hops = 0 THEN timeout_at' ELSE first_deadline
                /\ connects' = 0
                /\ connect_arg' = None
                /\ write_timeout' = None
                /\ read_timeout' = None
                /\ written' = 0
                /\ sock_reads' = 0
                /\ proxy_pending' = 0
                /\ proxy_response' = 0
                /\ proxy_received' = 0
                /\ proxy_status' = 0
                /\ pc' = "connect"
                /\ UNCHANGED <<open_sockets, result>>
    /\ UNCHANGED <<env, punycode, tls, first_method, timeout, now, hops, response, responses>>

\* Connection::send_https up to the connect call: as send, and the TLS session
\* setup (DNSNameRef::try_from_ascii_str, TlsConnector::new) may fail
send_https ==
    /\ pc = "send_https"
    /\ LET h == ensure_ascii_host(request.host, punycode)
       IN  IF ~h.ok
           THEN /\ Return(Err(h.err))
                /\ UNCHANGED <<request, timeout_duration, timeout_at, first_deadline,
                               connects, connect_arg, write_timeout, read_timeout,
                               written, sock_reads, proxyvars>>
           ELSE \/ /\ Return(Err("IoError"))
                   /\ UNCHANGED <<request, timeout_duration, timeout_at, first_deadline,
                                  connects, connect_arg, write_timeout, read_timeout,
                                  written, sock_reads, proxyvars>>
                \/ /\ request' = [request EXCEPT !.host = h.host]
                   /\ timeout_duration' = timeout
                   /\ timeout_at' = IF timeout.some THEN Some(now + timeout.v) ELSE None
                   /\ first_deadline' = IF hops = 0 THEN timeout_at' ELSE first_deadline
                   /\ connects' = 0
                   /\ connect_arg' = None
                   /\ write_timeout' = None
                   /\ read_timeout' = None
                   /\ written' = 0
                   /\ sock_reads' = 0
                   /\ proxy_pending' = 0
                   /\ proxy_response' = 0
                   /\ proxy_received' = 0
                   /\ proxy_status' = 0
                   /\ pc' = "connect"
                   /\ UNCHANGED <<open_sockets, result>>
    /\ UNCHANGED <<env, punycode, tls, first_method, timeout, now, hops, response, responses>>

\* the tcp_connect closure of Connection::connect
tcp_connect ==
    /\ pc = "connect"
    /\ \/ \* to_socket_addrs fails or yields no address: no connect call is made
          /\ timeout_duration.some
          /\ \E e \in {"IoError", "failed to lookup address information"} : Return(Err(e))
          /\ UNCHANGED <<now, connects, connect_arg>>
       \/ \* TcpStream::connect_timeout(addr, timeout) or TcpStream::connect(host)
          /\ connects' = connects + 1
          /\ connect_arg' = timeout_duration
          /\ \E dt \in 0..MaxStep : Elapse(dt)
          /\ \/ Return(Err("IoError"))
             \/ /\ open_sockets' = open_sockets + 1
                /\ pc' = IF request.proxy THEN "proxy_write" ELSE "calibrate"
                /\ UNCHANGED result
    /\ UNCHANGED <<request, env, punycode, tls, first_method, timevars, hops, write_timeout, read_timeout,
                   written, sock_reads, proxyvars, response, responses>>

Min(a, b) == IF a < b THEN a ELSE b

\* Connection::connect, proxy branch: write!(tcp, CONNECT ...).unwrap(); tcp.flush()?
proxy_write ==
    /\ pc = "proxy_write"
    /\ \E dt \in 0..MaxStep : Elapse(dt)
    /\ \/ \* the write fails and unwrap panics
          /\ Return(Panic)
          /\ UNCHANGED <<proxy_pending, proxy_status>>
       \/ \* the CONNECT request is sent; the proxy answers with some reply
          /\ \E len \in ProxyReplyLens : proxy_pending' = len
          /\ proxy_status' \in IF proxy_pending' = 0 THEN {0} ELSE ProxyStatuses
          /\ pc' = "proxy_read"
          /\ UNCHANGED <<result, open_sockets>>
    /\ UNCHANGED <<proxy_response, proxy_received>>
    /\ UNCHANGED <<request, env, punycode, tls, first_method, timevars, hops, connects, connect_arg,
                   write_timeout, read_timeout, written, sock_reads, response, responses>>

\* one iteration of the proxy read loop: read into a fresh 256-byte buffer,
\* append the whole buffer, stop after a short read
proxy_read ==
    /\ pc = "proxy_read"
    /\ \E dt \in 0..MaxStep : Elapse(dt)
    /\ \/ \* tcp.read fails
          /\ Return(Err("IoError"))
          /\ UNCHANGED proxyvars
       \/ \* tcp.read returns total bytes; 0 when the proxy has closed the connection
          \E total \in {Min(ChunkSize, proxy_pending)}
                       \cup (IF proxy_pending > ShortRead THEN {ShortRead} ELSE {}) :
             /\ proxy_pending' = proxy_pending - total
             /\ proxy_received' = proxy_received + total
             /\ proxy_response' = proxy_response + ChunkSize
             /\ pc' = IF total < ChunkSize THEN "proxy_verify" ELSE "proxy_read"
             /\ UNCHANGED <<result, open_sockets, proxy_status>>
       \/ \* nothing is pending and the proxy keeps the connection open: the read,
          \* which has no timeout, does not return
          /\ proxy_pending = 0
          /\ pc' = "proxy_blocked"
          /\ UNCHANGED <<proxyvars, result, open_sockets>>
    /\ UNCHANGED <<request, env, punycode, tls, first_method, timevars, hops, connects, connect_arg,
                   write_timeout, read_timeout, written, sock_reads, response, responses>>

\* Proxy::verify_response: fails when the proxy refused the tunnel, that is
\* when its reply does not carry a 2xx status
verify_response(status) ==
    IF status \in 200..299 THEN [ok |-> TRUE, err |-> ""] ELSE [ok |-> FALSE, err |-> "BadProxy"]

\* the proxy branch with the result of verify_response dropped
proxy_verify_unchecked ==
    /\ pc = "proxy_verify"
    /\ pc' = "calibrate"
    /\ proxy_pending' = 0
    /\ proxy_response' = 0
    /\ proxy_received' = 0
    /\ UNCHANGED <<result, open_sockets, proxy_status>>
    /\ UNCHANGED <<request, env, punycode, tls, first_method, timevars, now, hops, connects, connect_arg,
                   write_timeout, read_timeout, written, sock_reads,
                   response, responses>>

\* crate::Proxy::verify_response(&proxy_response)?; Ok(tcp)
proxy_verify ==
    /\ pc = "proxy_verify"
    /\ LET v == verify_response(proxy_status)
       IN  IF v.ok
           THEN /\ pc' = "calibrate"
                /\ proxy_pending' = 0
                /\ proxy_response' = 0
                /\ proxy_received' = 0
                /\ UNCHANGED <<result, open_sockets, proxy_status>>
           ELSE /\ Return(Err(v.err))
                /\ UNCHANGED proxyvars
    /\ UNCHANGED <<request, env, punycode, tls, first_method, timevars, now, hops, connects, connect_arg,
                   write_timeout, read_timeout, written, sock_reads,
                   response, responses>>

\* send with the calibrate_timeout call left out
calibrate_skipped ==
    /\ pc = "calibrate"
    /\ pc' = IF ~request.https THEN "write"
             ELSE IF tls = "native-tls" THEN "tls_connect"
             ELSE "tls_write"
    /\ UNCHANGED <<result, open_sockets, timeout_duration>>
    /\ UNCHANGED <<request, env, punycode, tls, first_method, timeout, timeout_at, first_deadline, now, hops,
                   connects, connect_arg, write_timeout, read_timeout, written,
                   sock_reads, proxyvars, response, responses>>

\* calibrate_timeout(&mut timeout_duration, timeout_at)?
calibrate ==
    /\ pc = "calibrate"
    /\ LET c == calibrate_timeout(timeout_duration, timeout_at, now)
       IN  IF c.ok
           THEN /\ timeout_duration' = c.timeout
                /\ pc' = IF ~request.https THEN "write"
                         ELSE IF tls = "native-tls" THEN "tls_connect"
                         ELSE "tls_write"
                /\ UNCHANGED <<result, open_sockets>>
           ELSE /\ Return(Err("TimedOut"))
                /\ UNCHANGED timeout_duration
    /\ UNCHANGED <<request, env, punycode, tls, first_method, timeout, timeout_at, first_deadline, now, hops,
                   connects, connect_arg, write_timeout, read_timeout, written,
                   sock_reads, proxyvars, response, responses>>

\* TcpStream::set_write_timeout: a zero duration is an error and changes nothing
set_write_timeout(old, t) ==
    IF t.some /\ t.v = 0 THEN old ELSE t

\* set_write_timeout(timeout_duration).ok(); write_all(&bytes)?; into_inner()
write ==
    /\ pc = "write"
    /\ write_timeout' = set_write_timeout(write_timeout, timeout_duration)
    /\ \E dt \in 0..MaxStep : Elapse(dt)
    /\ \/ \* every byte is written and the stream is handed to the reader
          /\ written' = ReqLen
          /\ pc' = "read"
          /\ UNCHANGED <<result, open_sockets>>
       \/ \* write_all or the flush of into_inner fails after a prefix
          /\ \E n \in 0..(ReqLen - 1) : written' = n
          /\ \E e \in {"IoError", "IntoInnerError"} : Return(Err(e))
    /\ UNCHANGED <<request, env, punycode, tls, first_method, timevars, hops, connects, connect_arg,
                   read_timeout, sock_reads, proxyvars, response, responses>>

\* send_https (native-tls, openssl): sess.connect(dns_name, tcp), the TLS
\* handshake over the connected socket
tls_connect ==
    /\ pc = "tls_connect"
    /\ \E dt \in 0..MaxStep : Elapse(dt)
    /\ \/ Return(Err("IoError"))
       \/ /\ pc' = "tls_write"
          /\ UNCHANGED <<result, open_sockets>>
    /\ UNCHANGED <<request, env, punycode, tls, first_method, timevars, hops, connects,
                   connect_arg, write_timeout, read_timeout, written, sock_reads,
                   proxyvars, response, responses>>

\* send_https: tls.get_ref().set_write_timeout(timeout_duration).ok();
\* tls.write(&bytes)?  The count that write returns is dropped. With rustls the
\* handshake runs inside this write.
tls_write ==
    /\ pc = "tls_write"
    /\ write_timeout' = set_write_timeout(write_timeout, timeout_duration)
    /\ \E dt \in 0..MaxStep : Elapse(dt)
    /\ \/ \* write returns Ok(n): n bytes of the request were accepted
          /\ \E n \in 1..ReqLen : written' = n
          /\ pc' = "read"
          /\ UNCHANGED <<result, open_sockets>>
       \/ \* the handshake or the write fails
          /\ written' = 0
          /\ Return(Err("IoError"))
    /\ UNCHANGED <<request, env, punycode, tls, first_method, timevars, hops, connects,
                   connect_arg, read_timeout, sock_reads, proxyvars, response, responses>>

Responses == [status : Statuses, location : {NoUrl} \cup {SomeUrl(u) : u \in Urls}]

\* HttpStream::read called by ResponseLazy::from_stream: the `timeout` closure
read ==
    /\ pc = "read"
    /\ LET t == stream_timeout(timeout_at, now, read_timeout)
       IN  IF ~t.ok
           THEN /\ Return(Err("TimedOut"))
                /\ UNCHANGED read_timeout
           ELSE /\ read_timeout' = t.read_timeout
                /\ pc' = "inner_read"
                /\ UNCHANGED <<result, open_sockets>>
    /\ UNCHANGED <<request, env, punycode, tls, first_method, timevars, now, hops, connects,
                   connect_arg, write_timeout, written, sock_reads, proxyvars,
                   response, responses>>

\* HttpStream::read: inner.read(buf). A read that returns data returns it
\* within the socket's read timeout.
inner_read ==
    /\ pc = "inner_read"
    /\ sock_reads' = sock_reads + 1
    /\ \E dt \in 0..MaxStep :
          /\ Elapse(dt)
          /\ \/ \* inner.read fails
                /\ Return(Err("IoError"))
                /\ UNCHANGED <<response, responses>>
             \/ \* more of the head is needed: from_stream reads again
                /\ read_timeout.some => dt <= read_timeout.v
                /\ sock_reads < MaxReads
                /\ pc' = "read"
                /\ UNCHANGED <<result, open_sockets, response, responses>>
             \/ \* status line and headers are complete
                /\ read_timeout.some => dt <= read_timeout.v
                /\ \E r \in Responses : response' = r
                /\ responses' = responses + 1
                /\ pc' = "redirect"
                /\ UNCHANGED <<result, open_sockets>>
    /\ UNCHANGED <<request, env, punycode, tls, first_method, timevars, hops, connects,
                   connect_arg, write_timeout, read_timeout, written, proxyvars>>

\* handle_redirects that follows one redirect and returns the next response
handle_redirects_capped ==
    /\ pc = "redirect"
    /\ \E accepted \in BOOLEAN :
          LET g == get_redirect(request, response.status, response.location, accepted)
          IN  CASE g.kind = "None" \/ (g.kind # "None" /\ hops >= 1) ->
                     /\ Return(Ok(response))
                     /\ UNCHANGED <<request, hops, response>>
                [] g.kind = "SomeErr" /\ hops < 1 ->
                     /\ Return(Err(g.err))
                     /\ UNCHANGED <<request, hops, response>>
                [] g.kind = "SomeOk" /\ hops < 1 ->
                     /\ request' = g.request
                     /\ hops' = hops + 1
                     /\ pc' = "send_lazy"
                     /\ response' = NoResponse
                     /\ UNCHANGED <<result, open_sockets>>
    /\ UNCHANGED <<env, punycode, tls, first_method, timevars, now, connects, connect_arg, write_timeout,
                   read_timeout, written, sock_reads, proxyvars, responses>>

\* handle_redirects(self, response)
handle_redirects ==
    /\ pc = "redirect"
    /\ \E accepted \in BOOLEAN :
          LET g == get_redirect(request, response.status, response.location, accepted)
          IN  CASE g.kind = "None" ->
                     /\ Return(Ok(response))
                     /\ UNCHANGED <<request, hops, response>>
                [] g.kind = "SomeErr" ->
                     /\ Return(Err(g.err))
                     /\ UNCHANGED <<request, hops, response>>
                [] g.kind = "SomeOk" ->
                     \* request?.send_lazy(); response is still alive
                     /\ hops < MaxHops
                     /\ request' = g.request
                     /\ hops' = hops + 1
                     /\ pc' = "send_lazy"
                     /\ response' = NoResponse
                     /\ UNCHANGED <<result, open_sockets>>
    /\ UNCHANGED <<env, punycode, tls, first_method, timevars, now, connects, connect_arg, write_timeout,
                   read_timeout, written, sock_reads, proxyvars, responses>>

Next ==
    \/ send_lazy
    \/ send
    \/ send_https
    \/ tcp_connect
    \/ proxy_write
    \/ proxy_read
    \/ proxy_verify
    \/ calibrate
    \/ write
    \/ tls_connect
    \/ tls_write
    \/ read
    \/ inner_read
    \/ handle_redirects

Spec == Init /\ [][Next]_vars

\* Connection::new on its own, over every value of the environment variable
RECURSIVE Strings(_)
Strings(n) ==
    IF n = 0 THEN {<<>>}
    ELSE LET shorter == Strings(n - 1)
         IN  shorter \cup {Append(t, c) : t \in shorter, c \in EnvChars}
EnvAll == {EnvVar("NotPresent", <<>>), EnvVar("NotUnicode", <<>>)}
              \cup {EnvVar("Present", t) : t \in Strings(MaxEnvLen)}

InitNew ==
    /\ request \in Requests
    /\ env \in EnvAll
    /\ InitRest

NextNew == send_lazy

SpecNew == InitNew /\ [][NextNew]_vars

TypeOK ==
    /\ pc \in {"send_lazy", "send", "send_https", "tls_connect", "tls_write", "connect", "proxy_write", "proxy_read", "proxy_blocked",
               "proxy_verify", "calibrate", "write", "read", "inner_read", "redirect", "done"}
    /\ now \in 0..MaxTime
    /\ hops \in 0..MaxHops
    /\ written \in 0..ReqLen

\* ------------------------------------------------------------- properties

\* C1: a follow-up request is issued only for 301, 302, 303 and 307; after 303
\* its method is Get when the original method was Post, Put or Delete and the
\* original method otherwise; after 301, 302 and 307 its method is the original
\* method; it is aimed at the Location of the response.
C1_RedirectDowngrade ==
    [][ (pc = "redirect" /\ pc' = "send_lazy") =>
          /\ response.status \in {301, 302, 303, 307}
          /\ (response.status = 303 /\ request.method \in {"Post", "Put", "Delete"})
                => request'.method = "Get"
          /\ (response.status = 303 /\ request.method \notin {"Post", "Put", "Delete"})
                => request'.method = request.method
          /\ response.status \in {301, 302, 307} => request'.method = request.method
          /\ request'.url = response.location.v ]_vars

\* a Post answered by a redirect has become a Get on the first follow-up
C1_Witness ==
    /\ pc = "send_lazy"
    /\ hops = 1
    /\ first_method = "Post"
    /\ request.method = "Get"
    /\ request.url = "/b"

\* C2: a response with status 301, 302, 303 or 307 and no Location header makes
\* the send return the RedirectLocationMissing error: the response is not
\* returned and no follow-up request is issued.
C2_MissingLocation ==
    [][ (pc = "redirect" /\ response.status \in {301, 302, 303, 307}
         /\ ~response.location.some) =>
          /\ pc' = "done"
          /\ result' = Err("RedirectLocationMissing")
          /\ hops' = hops
          /\ request' = request ]_vars

C2_Witness ==
    /\ pc = "done"
    /\ response.status = 307
    /\ ~response.location.some
    /\ result = Err("RedirectLocationMissing")

\* C3: a response whose status is none of 301, 302, 303, 307 is returned as it
\* was received, with or without a Location header, and no follow-up is sent.
C3_NonRedirectReturned ==
    [][ (pc = "redirect" /\ response.status \notin {301, 302, 303, 307}) =>
          /\ pc' = "done"
          /\ result'.tag = "Ok"
          /\ result'.status = response.status
          /\ result'.location = response.location
          /\ response' = response
          /\ hops' = hops
          /\ request' = request ]_vars

C3_Witness ==
    /\ pc = "done"
    /\ result.tag = "Ok"
    /\ result.status = 308
    /\ result.location = SomeUrl("/b")

\* C4: with the timeout resolved to 0 seconds the send fails with the timed-out
\* error, no connect call is made and no socket is opened.
C4_ZeroDeadlineNoSocket ==
    timeout = Some(0) =>
        /\ connects = 0
        /\ open_sockets = 0
        /\ pc = "done" =>
              /\ result.tag = "Err"
              /\ result.err \in {"TimedOut", "PunycodeFeatureNotEnabled",
                                 "PunycodeConversionFailed"}

\* C5: a read of the stream whose deadline is set and reached (deadline <= now)
\* returns TimedOut, sets no read timeout and reads nothing from the socket;
\* with the deadline in the future the socket's read timeout is deadline - now
\* when the underlying read is performed; the socket is read only there.
C5_ReadDeadline ==
    /\ [][ (pc = "read" /\ timeout_at.some /\ timeout_at.v <= now) =>
             /\ pc' = "done"
             /\ result' = Err("TimedOut")
             /\ read_timeout' = read_timeout
             /\ sock_reads' = sock_reads ]_vars
    /\ [][ (pc = "read" /\ timeout_at.some /\ timeout_at.v > now) =>
             /\ pc' = "inner_read"
             /\ read_timeout' = Some(timeout_at.v - now)
             /\ sock_reads' = sock_reads ]_vars
    /\ [](pc = "inner_read" /\ timeout_at.some =>
             /\ now < timeout_at.v
             /\ read_timeout = Some(timeout_at.v - now))
    /\ [][ sock_reads' > sock_reads => pc = "inner_read" ]_vars

\* the request was written and a read found the deadline reached
C5_Witness ==
    /\ pc = "done"
    /\ result = Err("TimedOut")
    /\ written = ReqLen
    /\ timeout_at.some
    /\ timeout_at.v <= now
    /\ sock_reads = 1
    /\ read_timeout = Some(1)

\* C6: without an explicit timeout and without a timeout from the environment
\* (variable unset or not a number) no deadline exists at any point, connect is
\* the unbounded connect, the write timeout is none and no read timeout is set.
NoTimeoutConfigured ==
    /\ ~request.timeout.some
    /\ env.kind = "NotPresent" \/ (env.kind = "Present" /\ env.val = <<"x">>)

C6_Unbounded ==
    NoTimeoutConfigured =>
        /\ ~timeout.some
        /\ ~timeout_duration.some
        /\ ~timeout_at.some
        /\ ~first_deadline.some
        /\ ~connect_arg.some
        /\ ~write_timeout.some
        /\ ~read_timeout.some

C6_Witness ==
    /\ NoTimeoutConfigured
    /\ pc = "done"
    /\ result.tag = "Ok"
    /\ hops >= 1
    /\ connects = 1
    /\ written = ReqLen
    /\ sock_reads >= 1

\* C7: when the proxy's reply fails verification the send returns the proxy
\* error and no byte of the request has been written; when it passes, the send
\* goes on with the socket of the CONNECT exchange and opens no other.
C7_ProxyVerification ==
    /\ [][ (pc = "proxy_verify" /\ proxy_status \notin 200..299) =>
             /\ pc' = "done"
             /\ result' = Err("BadProxy")
             /\ written' = 0 ]_vars
    /\ [][ (pc = "proxy_verify" /\ proxy_status \in 200..299) =>
             /\ pc' = "calibrate"
             /\ connects' = connects
             /\ open_sockets' = open_sockets ]_vars
    /\ []((request.proxy /\ written > 0) => (proxy_status \in 200..299 /\ connects = 1))
    /\ [](connects <= 1)

C7_Witness ==
    /\ pc = "done"
    /\ request.proxy
    /\ proxy_status = 407
    /\ result = Err("BadProxy")
    /\ written = 0
    /\ connects = 1

\* C8: once the deadline computed at the start of the original send has passed,
\* the connect, write and read phases of the send, those of follow-up requests
\* included, fail instead of proceeding.
C8_DeadlineAcrossHops ==
    [][ (first_deadline.some /\ first_deadline.v < now
         /\ pc \in {"connect", "write", "read"}) =>
          (pc' = "done" /\ result'.tag = "Err") ]_vars

\* C9: a send returns a response only when it is not a redirect, after exactly
\* one follow-up per redirect response received; a redirect response with a
\* Location either triggers one follow-up send or, when redirect_to refuses it,
\* an error, so that the chain is as long as the server makes it.
C9_FollowEveryRedirect ==
    /\ []((pc = "done" /\ result.tag = "Ok") =>
             /\ result.status \notin {301, 302, 303, 307}
             /\ result.status = response.status
             /\ responses = hops + 1)
    /\ [][ hops' # hops =>
             /\ hops' = hops + 1
             /\ pc = "redirect"
             /\ pc' = "send_lazy"
             /\ response.status \in {301, 302, 303, 307}
             /\ response.location.some ]_vars
    /\ [][ (pc = "redirect" /\ response.status \in {301, 302, 303, 307}
            /\ response.location.some) =>
             \/ hops' = hops + 1 /\ pc' = "send_lazy"
             \/ pc' = "done" /\ result' = Err("RedirectRefused") ]_vars
    /\ [](pc \in {"send", "connect", "calibrate", "write", "read", "inner_read"}
             => responses = hops)

\* a chain of MaxHops redirects followed by a final response
C9_Witness ==
    /\ pc = "done"
    /\ result.tag = "Ok"
    /\ hops = MaxHops
    /\ responses = MaxHops + 1
    /\ result.status = 200

\* C10: the timeout of a new Connection is the request's timeout when it has
\* one, else the number MINREQ_TIMEOUT spells when it is set to an unsigned
\* decimal number, else none.
IsNumeral(str) ==
    LET body == IF Len(str) > 0 /\ str[1] = "+" THEN SubSeq(str, 2, Len(str)) ELSE str
    IN  /\ Len(body) >= 1
        /\ \A i \in 1..Len(body) : body[i] \in {"0", "1", "2", "3", "4", "5", "6", "7", "8", "9"}

RECURSIVE Pow10(_)
Pow10(n) == IF n = 0 THEN 1 ELSE 10 * Pow10(n - 1)

RECURSIVE PositionalSum(_, _)
PositionalSum(body, i) ==
    IF i > Len(body) THEN 0
    ELSE DigitValue[body[i]] * Pow10(Len(body) - i) + PositionalSum(body, i + 1)

NumeralValue(str) ==
    PositionalSum(IF str[1] = "+" THEN SubSeq(str, 2, Len(str)) ELSE str, 1)

C10_TimeoutResolution ==
    pc \in {"send", "send_https"} =>
        timeout = IF request.timeout.some THEN request.timeout
                  ELSE IF env.kind = "Present" /\ IsNumeral(env.val)
                       THEN Some(NumeralValue(env.val))
                  ELSE None

\* the variable supplies the timeout of a request that has none
C10_Witness ==
    /\ pc = "send"
    /\ ~request.timeout.some
    /\ env = EnvVar("Present", <<"+", "2">>)
    /\ timeout = Some(2)

\* C11: a host with a non-ASCII character, sent by a build without the punycode
\* feature, makes send and send_https return PunycodeFeatureNotEnabled before
\* any connect call and before any byte is written; an ASCII host is unchanged.
NonAsciiHost == \E i \in 1..Len(request.host) : request.host[i] = "bUcher"

C11_PunycodeNotEnabled ==
    /\ [][ (pc \in {"send", "send_https"} /\ NonAsciiHost /\ ~punycode) =>
             /\ pc' = "done"
             /\ result' = Err("PunycodeFeatureNotEnabled")
             /\ open_sockets' = 0
             /\ UNCHANGED <<connects, written>> ]_vars
    /\ [][ (pc \in {"send", "send_https"} /\ ~NonAsciiHost) =>
             request'.host = request.host ]_vars
    /\ [](result.err = "PunycodeFeatureNotEnabled" =>
             (connects = 0 /\ written = 0 /\ open_sockets = 0 /\ sock_reads = 0))

C11_Witness ==
    /\ pc = "done"
    /\ request.host = <<"bUcher", "de:80">>
    /\ ~punycode
    /\ result = Err("PunycodeFeatureNotEnabled")
    /\ connects = 0

\* C12: calibrate_timeout leaves the duration alone without a deadline; with a
\* deadline it fails with the timed-out error whenever now >= deadline, and
\* otherwise sets the duration to deadline - now, which is positive.
C12_CalibratePositive ==
    [][ pc = "calibrate" =>
          IF ~timeout_at.some
          THEN pc' # "done" /\ timeout_duration' = timeout_duration
          ELSE IF now >= timeout_at.v
          THEN pc' = "done" /\ result' = Err("TimedOut")
          ELSE /\ pc' # "done"
               /\ timeout_duration' = Some(timeout_at.v - now)
               /\ timeout_duration'.v > 0 ]_vars

\* C13: with a deadline configured, every blocking socket call of the send is
\* made with a time bound on the socket: the connect, the write and the reads
\* of the CONNECT exchange, the TLS handshake, the request write and the
\* response reads.
C13_EveryCallBounded ==
    timeout_at.some =>
        /\ connects > 0 => connect_arg.some
        /\ pc = "proxy_write" => write_timeout.some
        /\ pc = "proxy_read" => read_timeout.some
        /\ pc = "tls_connect" => (write_timeout.some /\ read_timeout.some)
        /\ pc \in {"read", "inner_read", "redirect"} => write_timeout.some
        /\ pc = "inner_read" => read_timeout.some

\* C14: the write timeout installed before the request is written is at most
\* the budget left when the write begins, deadline - now.
C14_WriteTimeoutWithinBudget ==
    [][ (pc \in {"write", "tls_write"} /\ timeout_at.some /\ write_timeout'.some) =>
          write_timeout'.v <= timeout_at.v - now ]_vars

\* C15: the proxy read loop does not hang after a reply whose length is a
\* multiple of the chunk size: it never sits in a read that cannot return.
C15_ProxyLoopTerminates ==
    (proxy_received > 0 /\ proxy_received % ChunkSize = 0) => pc # "proxy_blocked"

\* C16: when the stream is handed to the response reader every byte of the
\* serialized request has been written, on the plaintext and the TLS paths.
C16_WholeRequestWritten ==
    pc \in {"read", "inner_read", "redirect"} => written = ReqLen

\* C17: every failure of a phase ends the send with an Err value: the send
\* never panics.
C17_FailuresAreErr ==
    result.tag # "Panic"

\* C18: the phases of a send follow one another in the order normalization,
\* connect (with the proxy tunnel), recalibration, (handshake,) write, read,
\* redirect decision; request bytes are written only by the write phase, on
\* the connected socket and with the recalibrated budget; the socket is read
\* by the reader only after the write; the deadline set at send-start is the
\* one the stream carries, recalibration does not change it.
PhaseOrder ==
    {<<"send_lazy", "send">>, <<"send_lazy", "send_https">>,
     <<"send", "connect">>, <<"send_https", "connect">>,
     <<"connect", "proxy_write">>, <<"connect", "calibrate">>,
     <<"proxy_write", "proxy_read">>, <<"proxy_read", "proxy_verify">>,
     <<"proxy_read", "proxy_blocked">>, <<"proxy_verify", "calibrate">>,
     <<"calibrate", "write">>, <<"calibrate", "tls_connect">>,
     <<"calibrate", "tls_write">>, <<"tls_connect", "tls_write">>,
     <<"write", "read">>, <<"tls_write", "read">>,
     <<"read", "inner_read">>, <<"inner_read", "read">>,
     <<"inner_read", "redirect">>, <<"redirect", "send_lazy">>}

C18_PhaseOrder ==
    /\ [][ pc' # pc => (pc' = "done" \/ <<pc, pc'>> \in PhaseOrder) ]_vars
    /\ [][ written' # written => pc \in {"send", "send_https", "write", "tls_write"} ]_vars
    /\ [](pc \in {"write", "tls_connect", "tls_write"} =>
             (connects = 1 /\ open_sockets >= 1 /\ written = 0 /\ sock_reads = 0))
    /\ [](pc = "write" /\ timeout_at.some =>
             timeout_duration = Some(timeout_at.v - now))
    /\ [][ sock_reads' > sock_reads => pc = "inner_read" ]_vars
    /\ [](pc \in {"read", "inner_read"} =>
             (written >= 1 /\ (~request.https => written = ReqLen)))
    /\ [][ pc \notin {"send", "send_https"} => timeout_at' = timeout_at ]_vars
    /\ [][ (pc \in {"send", "send_https"} /\ pc' = "connect") =>
             timeout_at' = IF timeout.some THEN Some(now + timeout.v) ELSE None ]_vars

\* a plaintext send whose connect used up part of the budget has reached the
\* redirect decision: the duration was recalibrated, the deadline was not
C18_Witness ==
    /\ pc = "redirect"
    /\ ~request.https
    /\ timeout = Some(2)
    /\ timeout_duration = Some(1)
    /\ timeout_at = Some(2)
    /\ written = ReqLen
    /\ sock_reads >= 1

\* C19: the response handed to the verifier is as long as the sum of the byte
\* counts the reads returned.
C19_ProxyResponseExact ==
    pc = "proxy_verify" => proxy_response = proxy_received

\* C20: at most one socket opened by the send operation is open at any point.
C20_OneSocketOpen ==
    open_sockets <= 1

====
